---------------------------- MODULE Spec2Model ----------------------------
(***************************************************************************)
(* Construction of a Cell_KokamNMC (src/src/cell_KokamNMC.cpp).            *)
(*                                                                         *)
(* The constructor Cell_KokamNMC(MM, verbosei) and the                     *)
(* delegating constructor Cell_KokamNMC(M, degid, verbosei) are modelled   *)
(* as a sequence of steps per cell under construction.  Up to two cells    *)
(* are constructed from one shared slide::Model.                           *)
(*                                                                         *)
(* Real numbers (C++ double) are exact decimal rationals                   *)
(*      [n |-> numerator, d |-> denominator, e |-> decimal exponent]       *)
(* standing for (n / d) * 10^e, kept in a canonical form so that equal     *)
(* values are equal records.                                               *)
(***************************************************************************)
EXTENDS Integers, Sequences, FiniteSets, TLC

VARIABLES
    MM,     \* the slide::Model handed (by const reference) to every constructor
    env,    \* the driver and the program's stress-parameter constant
    cells   \* cells[c]: the Cell_KokamNMC object c under construction

vars == <<MM, env, cells>>

---------------------------------------------------------------------------
(* Bounds of the model *)

\* length of the identifier arrays SEI_id, CS_id, LAM_id of a DEG_ID
IdLen == 2
\* number of radial nodes of a concentration profile (slide::z_type)
NodeCount == 1
\* verbosity levels 0..MaxVerbose are passed to the constructors
MaxVerbose == 1

---------------------------------------------------------------------------
(* Exact decimal rationals *)

Abs(x) == IF x < 0 THEN -x ELSE x

Min(x, y) == IF x <= y THEN x ELSE y

RECURSIVE GCD(_, _)
GCD(a, b) == IF b = 0 THEN a ELSE GCD(b, a % b)

RECURSIVE Pow10(_)
Pow10(k) == IF k = 0 THEN 1 ELSE 10 * Pow10(k - 1)

\* move the factors 2 and 5 of the denominator into the decimal exponent
RECURSIVE NormDen(_, _, _)
NormDen(n, d, e) ==
    IF d % 2 = 0 THEN NormDen(n * 5, d \div 2, e - 1)
    ELSE IF d % 5 = 0 THEN NormDen(n * 2, d \div 5, e - 1)
    ELSE [n |-> n, d |-> d, e |-> e]

\* move the factors 10 of the numerator into the decimal exponent
RECURSIVE NormNum(_, _, _)
NormNum(n, d, e) ==
    IF n % 10 = 0 THEN NormNum(n \div 10, d, e + 1)
    ELSE [n |-> n, d |-> d, e |-> e]

\* the canonical record of (n / d) * 10^e, d > 0
Norm(n, d, e) ==
    IF n = 0 THEN [n |-> 0, d |-> 1, e |-> 0]
    ELSE LET g == GCD(Abs(n), d)
             r == NormDen(n \div g, d \div g, e)
             h == GCD(Abs(r.n), r.d)
         IN  NormNum(r.n \div h, r.d \div h, r.e)

\* the literal n * 10^e
Dec(n, e) == Norm(n, 1, e)

RMul(a, b) ==
    LET g1 == GCD(Abs(a.n), b.d)
        g2 == GCD(Abs(b.n), a.d)
    IN  IF a.n = 0 \/ b.n = 0 THEN Dec(0, 0)
        ELSE Norm((a.n \div g1) * (b.n \div g2), (a.d \div g2) * (b.d \div g1), a.e + b.e)

RInv(a) == Norm((IF a.n < 0 THEN -1 ELSE 1) * a.d, Abs(a.n), -a.e)

RDiv(a, b) == RMul(a, RInv(b))

RAdd(a, b) ==
    LET e  == Min(a.e, b.e)
        l  == (a.d \div GCD(a.d, b.d)) * b.d
        na == a.n * Pow10(a.e - e) * (l \div a.d)
        nb == b.n * Pow10(b.e - e) * (l \div b.d)
    IN  Norm(na + nb, l, e)

RPos(a) == a.n > 0

RNonNeg(a) == a.n >= 0

---------------------------------------------------------------------------
(* Data *)

CellIds == {1, 2}

\* the product f * c of a decimal f and an integer c, kept unevaluated (its
\* numerator does not fit 32 bits)
Times(f, c) == [f |-> f, c |-> c]

\* a concentration profile filled uniformly with x
Uniform(x) == [i \in 1..NodeCount |-> x]

\* values an uninitialised double may hold
UninitDoubles == {Times(Dec(0, 0), 1), Times(Dec(-1, 0), 1)}

\* values an uninitialised slide::z_type local (up, un) may hold
UninitProfiles == [1..NodeCount -> UninitDoubles]

\* model identifiers a DEG_ID may carry
Ids == {0, 1, 2}

IdArrays == [0..(IdLen - 1) -> Ids]

\* a DEG_ID whose members were never written: every identifier holds g
UninitDegId(g) ==
    [SEI_id |-> [i \in 0..(IdLen - 1) |-> g], SEI_n |-> IdLen, SEI_porosity |-> g,
     CS_id  |-> [i \in 0..(IdLen - 1) |-> g], CS_n  |-> IdLen, CS_diffusion |-> g,
     LAM_id |-> [i \in 0..(IdLen - 1) |-> g], LAM_n |-> IdLen, pl_id |-> g]

\* the DEG_ID values a caller passes to Cell_KokamNMC(M, degid, verbosei)
DegIds(seis, couplings) ==
    { [SEI_id |-> sei, SEI_n |-> 1, SEI_porosity |-> k,
       CS_id  |-> cs,  CS_n  |-> csn, CS_diffusion |-> k,
       LAM_id |-> lam, LAM_n |-> lamn, pl_id |-> k] :
         sei \in seis, k \in couplings, cs \in IdArrays, csn \in 1..IdLen,
         lam \in IdArrays, lamn \in 1..IdLen }

\* the part of a DEG_ID the degradation models read: the counts, the
\* identifiers below the counts, the coupling flags and the plating identifier
Selector(d) ==
    [SEI    |-> [i \in 0..(d.SEI_n - 1) |-> d.SEI_id[i]],
     CS     |-> [i \in 0..(d.CS_n - 1)  |-> d.CS_id[i]],
     LAM    |-> [i \in 0..(d.LAM_n - 1) |-> d.LAM_id[i]],
     SEI_porosity |-> d.SEI_porosity, CS_diffusion |-> d.CS_diffusion,
     pl_id  |-> d.pl_id]

\* a State none of whose members was written yet
UnsetState ==
    [zp |-> <<>>, zn |-> <<>>, T |-> Dec(0, 0), delta |-> Dec(0, 0),
     LLI |-> Dec(0, 0), thickp |-> Dec(0, 0), thickn |-> Dec(0, 0),
     ep |-> Dec(0, 0), en |-> Dec(0, 0), ap |-> Dec(0, 0), an |-> Dec(0, 0),
     CS |-> Dec(0, 0), Dp |-> Dec(0, 0), Dn |-> Dec(0, 0), R |-> Dec(0, 0),
     delta_pl |-> Dec(0, 0)]

\* the object before its constructor body runs
NewCell ==
    [pc |-> "assign", kind |-> 0, err |-> 0, trace |-> <<>>,
     verbose |-> 0, n |-> 0, Cmaxpos |-> 0, Cmaxneg |-> 0,
     Rp |-> Dec(0, 0), Rn |-> Dec(0, 0), elec_surf |-> Dec(0, 0),
     sparam |-> [s_dai |-> FALSE, s_lares |-> FALSE],
     M |-> [nch |-> 0, Rp |-> Dec(0, 0), Rn |-> Dec(0, 0)],
     s_ini |-> UnsetState, s |-> UnsetState,
     csparam |-> [CS_diffusion |-> 0], npl |-> 0,
     deg_id |-> UninitDegId(0), degid |-> UninitDegId(0)]

\* a slide::Model computed for nch nodes and the particle radii rp, rn
Model(nch, rp, rn) == [nch |-> nch, Rp |-> rp, Rn |-> rn]

\* the Models a driver may hand in: the one computed for this cell's
\* discretisation and geometry, one of another order, one of other radii
Models ==
    { Model(NodeCount, Dec(85, -7), Dec(125, -7)),
      Model(NodeCount + 1, Dec(85, -7), Dec(125, -7)),
      Model(NodeCount, Dec(125, -7), Dec(125, -7)) }

---------------------------------------------------------------------------
(* Control flow of the constructors *)

\* setC(fp, fn) moved in front of the try block
PcAfter_SetCFirst(step) ==
    CASE step = "assign"          -> "checkModelparam"
      [] step = "checkModelparam" -> "initialise"
      [] step = "initialise"      -> "setC"
      [] step = "setC"            -> "validState"
      [] step = "validState"      -> "params"
      [] step = "params"          -> "deg_id"
      [] step = "deg_id"          -> "flags"
      [] step = "flags"           -> "ret"
      [] step = "degid"           -> "flags2"
      [] step = "flags2"          -> "done"

\* the step that runs after step `step` has completed without throwing
PcAfter(step) ==
    CASE step = "assign"          -> "checkModelparam"
      [] step = "checkModelparam" -> "initialise"
      [] step = "initialise"      -> "validState"
      [] step = "validState"      -> "setC"
      [] step = "setC"            -> "params"
      [] step = "params"          -> "deg_id"
      [] step = "deg_id"          -> "flags"
      [] step = "flags"           -> "ret"
      [] step = "degid"           -> "flags2"
      [] step = "flags2"          -> "done"

\* step `step` of cell ran to its end: control passes to the next step
Advance(cell, step) ==
    [cell EXCEPT !.pc = PcAfter(step), !.trace = Append(@, step)]

\* throw code: the constructor is left, no later statement runs
Throw(cell, code) == [cell EXCEPT !.pc = "failed", !.err = code]

---------------------------------------------------------------------------
(* The statements of Cell_KokamNMC(const slide::Model &MM, int verbosei) *)

\* the verbosity is written to n as well
AssignFields_VerboseInN(cell, verbosei, stressParam) ==
    [cell EXCEPT !.verbose = verbosei,
                 !.Cmaxpos = 51385,
                 !.Cmaxneg = 30555,
                 !.n = verbosei,
                 !.Rp = Dec(85, -7),
                 !.Rn = Dec(125, -7),
                 !.elec_surf = Dec(982, -4),
                 !.sparam = stressParam]

\* verbose = verbosei and the literal parameters up to the stress parameters
AssignFields(cell, verbosei, stressParam) ==
    [cell EXCEPT !.verbose = verbosei,
                 !.Cmaxpos = 51385,
                 !.Cmaxneg = 30555,
                 !.n = 1,
                 !.Rp = Dec(85, -7),
                 !.Rn = Dec(125, -7),
                 !.elec_surf = Dec(982, -4),
                 !.sparam = stressParam]

\* lines 49-93
BeginStep(cell, verbosei, stressParam) ==
    Advance(AssignFields(cell, verbosei, stressParam), "assign")

\* Cell::checkModelparam: the Model was computed for this discretisation
\* order and these particle radii
ModelMatches(cell) ==
    /\ cell.M.nch = NodeCount
    /\ cell.M.Rp = cell.Rp
    /\ cell.M.Rn = cell.Rn

\* checkModelparam() reports the mismatch and returns
CheckModelStep_NoThrow(cell, mm) ==
    Advance([cell EXCEPT !.M = mm], "checkModelparam")

\* checkModelparam() called inside the try block: its 110 is rethrown as 12
CheckModelStep_InTry(cell, mm) ==
    LET c1 == [cell EXCEPT !.M = mm]
    IN  IF ModelMatches(c1) THEN Advance(c1, "checkModelparam")
                            ELSE Throw(c1, 12)

\* M = MM; checkModelparam();  outside any try block: 110 reaches the caller
CheckModelStep(cell, mm) ==
    LET c1 == [cell EXCEPT !.M = mm]
    IN  IF ModelMatches(c1) THEN Advance(c1, "checkModelparam")
                            ELSE Throw(c1, 110)

\* M = MM moves the matrices out of the caller's Model
ReadModel_Moved == MM' = Model(0, Dec(0, 0), Dec(0, 0))

\* the constructor only reads the Model it is given by const reference
ReadModel == UNCHANGED MM

\* a = 3 * e / R
EffectiveArea(e, radius) == RDiv(RMul(Dec(3, 0), e), radius)

\* the anode thickness is left out of the product
CrackSurface_NoThickness(an, elec_surf, thickn) ==
    RMul(RMul(Dec(1, -2), an), elec_surf)

\* CS = 0.01 * an * elec_surf * thickn
CrackSurface(an, elec_surf, thickn) ==
    RMul(RMul(RMul(Dec(1, -2), an), elec_surf), thickn)

\* the sum over the two electrodes is not halved
Resistance_NoHalf(Rdc, thickp, ap, thickn, an, elec_surf) ==
    RMul(Rdc, RAdd(RMul(RMul(thickp, ap), elec_surf),
                   RMul(RMul(thickn, an), elec_surf)))

\* R = Rdc * ((thickp * ap * elec_surf + thickn * an * elec_surf) / 2)
Resistance(Rdc, thickp, ap, thickn, an, elec_surf) ==
    RMul(Rdc, RDiv(RAdd(RMul(RMul(thickp, ap), elec_surf),
                        RMul(RMul(thickn, an), elec_surf)),
                   Dec(2, 0)))

\* PhyConst::Kelvin
Kelvin == 273

\* the locals of the block 'Initialise state variables'
InitialValues(cell) ==
    LET Rdc    == Dec(102, -4)
        thickp == Dec(70, -6)
        thickn == Dec(735, -7)
        ep     == Dec(5, -1)
        en     == Dec(5, -1)
        ap     == EffectiveArea(ep, cell.Rp)
        an     == EffectiveArea(en, cell.Rn)
    IN  [fp |-> Dec(689332, -6), fn |-> Dec(479283, -6),
         T |-> Dec(Kelvin + 25, 0), delta |-> Dec(1, -9), LLI |-> Dec(0, 0),
         thickp |-> thickp, thickn |-> thickn, ep |-> ep, en |-> en,
         ap |-> ap, an |-> an,
         CS |-> CrackSurface(an, cell.elec_surf, thickn),
         Dp |-> Dec(8, -14), Dn |-> Dec(7, -14),
         R  |-> Resistance(Rdc, thickp, ap, thickn, an, cell.elec_surf),
         delta_pl |-> Dec(0, 0)]

\* State::initialise: every member takes the value of its argument
Initialise(up, un, T, delta, LLI, thickp, thickn, ep, en, ap, an, CS, Dp, Dn, R, delta_pl) ==
    [zp |-> up, zn |-> un, T |-> T, delta |-> delta, LLI |-> LLI,
     thickp |-> thickp, thickn |-> thickn, ep |-> ep, en |-> en,
     ap |-> ap, an |-> an, CS |-> CS, Dp |-> Dp, Dn |-> Dn, R |-> R,
     delta_pl |-> delta_pl]

\* s_ini.initialise(up, un, ...); s = s_ini;  up and un were never written
InitialiseStep(cell, up, un) ==
    LET v  == InitialValues(cell)
        st == Initialise(up, un, v.T, v.delta, v.LLI, v.thickp, v.thickn,
                         v.ep, v.en, v.ap, v.an, v.CS, v.Dp, v.Dn, v.R, v.delta_pl)
    IN  Advance([cell EXCEPT !.s_ini = st, !.s = st], "initialise")

\* Cell::validState: every scalar of the state within its physical bound and
\* both profiles of the discretisation order
ValidState(s) ==
    /\ Len(s.zp) = NodeCount /\ Len(s.zn) = NodeCount
    /\ RPos(s.T) /\ RPos(s.delta) /\ RNonNeg(s.LLI)
    /\ RPos(s.thickp) /\ RPos(s.thickn) /\ RPos(s.ep) /\ RPos(s.en)
    /\ RPos(s.ap) /\ RPos(s.an) /\ RNonNeg(s.CS)
    /\ RPos(s.Dp) /\ RPos(s.Dn) /\ RPos(s.R) /\ RNonNeg(s.delta_pl)

\* try { validState(); } catch (int e) { ... throw 12; }
ValidStateStep(cell) ==
    IF ValidState(cell.s) THEN Advance(cell, "validState") ELSE Throw(cell, 12)

\* Cell::setC: both profiles of s filled uniformly with fraction * Cmax
SetC(cell, fp, fn) ==
    [cell EXCEPT !.s.zp = Uniform(Times(fp, cell.Cmaxpos)),
                 !.s.zn = Uniform(Times(fn, cell.Cmaxneg))]

\* setC(fp, fn);
SetCStep(cell) ==
    LET v == InitialValues(cell)
    IN  Advance(SetC(cell, v.fp, v.fn), "setC")

\* the SEI, cracking, LAM and plating parameters
ParamsStep(cell) ==
    Advance([cell EXCEPT !.csparam.CS_diffusion = 2, !.npl = 1], "params")

\* the count of LAM models is left unset
DefaultDegId_NoLamCount(d) ==
    [d EXCEPT !.SEI_id[0] = 0, !.SEI_n = 1, !.SEI_porosity = 0,
              !.CS_id[0] = 0,  !.CS_n = 1,  !.CS_diffusion = 0,
              !.LAM_id[0] = 0, !.pl_id = 0]

\* degradation identifiers: no degradation
DefaultDegId(d) ==
    [d EXCEPT !.SEI_id[0] = 0, !.SEI_n = 1, !.SEI_porosity = 0,
              !.CS_id[0] = 0,  !.CS_n = 1,  !.CS_diffusion = 0,
              !.LAM_id[0] = 0, !.LAM_n = 1, !.pl_id = 0]

\* lines 173-182
DefaultDegIdStep(cell) ==
    Advance([cell EXCEPT !.deg_id = DefaultDegId(@)], "deg_id")

\* for (int i = 0; i < deg_id.CS_n; i++) acc = acc || deg_id.CS_id[i] == tag;
RECURSIVE OrCS(_, _, _, _)
OrCS(acc, d, tag, i) ==
    IF i < d.CS_n THEN OrCS(acc \/ d.CS_id[i] = tag, d, tag, i + 1) ELSE acc

\* for (int i = 0; i < deg_id.LAM_n; i++) acc = acc || deg_id.LAM_id[i] == tag;
RECURSIVE OrLAM(_, _, _, _)
OrLAM(acc, d, tag, i) ==
    IF i < d.LAM_n THEN OrLAM(acc \/ d.LAM_id[i] = tag, d, tag, i + 1) ELSE acc

\* the loops assign the comparison instead of accumulating it
StressFlags_Overwrite(sp, d) ==
    [s_dai   |-> d.LAM_n > 0 /\ d.LAM_id[d.LAM_n - 1] = 1,
     s_lares |-> d.CS_n > 0 /\ d.CS_id[d.CS_n - 1] = 1]

\* the LAM loop compares with the cracking tag of Dai's model
StressFlags_LamTag(sp, d) ==
    [s_dai   |-> OrLAM(OrCS(sp.s_dai, d, 2, 0), d, 2, 0),
     s_lares |-> OrCS(sp.s_lares, d, 1, 0)]

\* the three loops that follow every assignment of deg_id
StressFlags(sp, d) ==
    [s_dai   |-> OrLAM(OrCS(sp.s_dai, d, 2, 0), d, 1, 0),
     s_lares |-> OrCS(sp.s_lares, d, 1, 0)]

\* the flag derivation `step` ("flags", "flags2") on the cell's own deg_id
FlagsStep(cell, step) ==
    Advance([cell EXCEPT !.sparam = StressFlags(@, cell.deg_id)], step)

\* Cell_KokamNMC(MM, verbosei) returns the cell to its caller
ReturnStep(cell) == [cell EXCEPT !.pc = "done", !.kind = 1]

(* The statements of Cell_KokamNMC(const slide::Model &M, const DEG_ID &degid, int verbosei) *)

\* deg_id = degid, once the delegated Cell_KokamNMC(M, verbosei) has returned
AssignDegIdStep(cell, d) ==
    Advance([cell EXCEPT !.kind = 2, !.degid = d, !.deg_id = d], "degid")

---------------------------------------------------------------------------
(* Drivers: env.driver names what is constructed and with which inputs,    *)
(* env.StressParam_Kokam is settings::def_param::StressParam_Kokam          *)

NoFlags == [s_dai |-> FALSE, s_lares |-> FALSE]

ZeroIds == [i \in 0..(IdLen - 1) |-> 0]

\* "one": one cell, every selector over Ids, every content of the
\* uninitialised locals, the stress-parameter record with both flags off
EnvOne == {[driver |-> "one", StressParam_Kokam |-> NoFlags]}

\* "param": one cell, whatever flags the stress-parameter record carries
EnvParam ==
    {[driver |-> "param", StressParam_Kokam |-> [s_dai |-> a, s_lares |-> b]] :
        a, b \in BOOLEAN}

\* "two": two cells constructed at once, every verbosity
EnvTwo == {[driver |-> "two", StressParam_Kokam |-> NoFlags]}

AllDegIds == DegIds({ZeroIds}, {0})

\* selectors with one cracking model and no LAM; the unused cracking
\* identifiers carry the Dai tag
FewDegIds ==
    {d \in DegIds({ZeroIds}, {0, 1}) :
        /\ d.CS_n = 1 /\ d.LAM_n = 1 /\ d.LAM_id = ZeroIds
        /\ \A i \in 1..(IdLen - 1) : d.CS_id[i] = 2
        /\ d.CS_diffusion = 0 \/ d.CS_id[0] = 2}

UniformProfiles == {Uniform(x) : x \in UninitDoubles}

\* the verbosei a driver passes
Verbosities == IF env.driver = "two" THEN 0..MaxVerbose ELSE {MaxVerbose}

\* what the identifiers of a never-written DEG_ID may all hold
DegGarbage == IF env.driver = "two" THEN {0, 2} ELSE Ids

\* what the never-written locals up and un may hold
ProfileGarbage == IF env.driver = "one" THEN UninitProfiles ELSE UniformProfiles

\* the degid a driver passes
InputDegIds == IF env.driver = "two" THEN FewDegIds ELSE AllDegIds

---------------------------------------------------------------------------
(* Actions: one per step of a constructor call on cell c *)

Put(c, cell) == cells' = [cells EXCEPT ![c] = cell]

\* lines 49-93: the object's members are whatever its memory held, then the
\* literal parameters are assigned
Begin(c) ==
    /\ cells[c].pc = "assign"
    /\ \E v \in Verbosities, g \in DegGarbage :
          Put(c, BeginStep([cells[c] EXCEPT !.deg_id = UninitDegId(g)],
                           v, env.StressParam_Kokam))
    /\ UNCHANGED <<MM, env>>

\* lines 95-97
CheckModel(c) ==
    /\ cells[c].pc = "checkModelparam"
    /\ Put(c, CheckModelStep(cells[c], MM))
    /\ ReadModel
    /\ UNCHANGED env

\* lines 99-122
InitState(c) ==
    /\ cells[c].pc = "initialise"
    /\ \E up \in ProfileGarbage, un \in ProfileGarbage :
          Put(c, InitialiseStep(cells[c], up, un))
    /\ UNCHANGED <<MM, env>>

\* lines 124-133
Validate(c) ==
    /\ cells[c].pc = "validState"
    /\ Put(c, ValidStateStep(cells[c]))
    /\ UNCHANGED <<MM, env>>

\* line 134
SetConcentration(c) ==
    /\ cells[c].pc = "setC"
    /\ Put(c, SetCStep(cells[c]))
    /\ UNCHANGED <<MM, env>>

\* lines 136-171
SetParams(c) ==
    /\ cells[c].pc = "params"
    /\ Put(c, ParamsStep(cells[c]))
    /\ UNCHANGED <<MM, env>>

\* lines 173-182
SetDefaultDegId(c) ==
    /\ cells[c].pc = "deg_id"
    /\ Put(c, DefaultDegIdStep(cells[c]))
    /\ UNCHANGED <<MM, env>>

\* lines 184-192
DeriveFlags(c) ==
    /\ cells[c].pc = "flags"
    /\ Put(c, FlagsStep(cells[c], "flags"))
    /\ UNCHANGED <<MM, env>>

\* line 193: the caller used Cell_KokamNMC(MM, verbosei), which returns
ReturnCell(c) ==
    /\ cells[c].pc = "ret"
    /\ Put(c, ReturnStep(cells[c]))
    /\ UNCHANGED <<MM, env>>

\* lines 195, 205: the caller used Cell_KokamNMC(M, degid, verbosei); the
\* delegated construction returned and the body reads degid for the first time
AssignDegId(c) ==
    /\ cells[c].pc = "ret"
    /\ \E d \in InputDegIds : Put(c, AssignDegIdStep(cells[c], d))
    /\ UNCHANGED <<MM, env>>

\* lines 207-216
DeriveFlagsAgain(c) ==
    /\ cells[c].pc = "flags2"
    /\ Put(c, FlagsStep(cells[c], "flags2"))
    /\ UNCHANGED <<MM, env>>

\* the cells the driver constructs
Active == IF env.driver = "two" THEN CellIds ELSE {1}

Next ==
    \/ \E c \in Active : Begin(c)
    \/ \E c \in Active : CheckModel(c)
    \/ \E c \in Active : InitState(c)
    \/ \E c \in Active : Validate(c)
    \/ \E c \in Active : SetConcentration(c)
    \/ \E c \in Active : SetParams(c)
    \/ \E c \in Active : SetDefaultDegId(c)
    \/ \E c \in Active : DeriveFlags(c)
    \/ \E c \in Active : ReturnCell(c)
    \/ \E c \in Active : AssignDegId(c)
    \/ \E c \in Active : DeriveFlagsAgain(c)

InitCells == cells = [c \in CellIds |-> NewCell]

Init == MM \in Models /\ env \in EnvOne /\ InitCells

InitParam == MM \in Models /\ env \in EnvParam /\ InitCells

InitTwo == MM \in Models /\ env \in EnvTwo /\ InitCells

Spec == Init /\ [][Next]_vars

SpecParam == InitParam /\ [][Next]_vars

SpecTwo == InitTwo /\ [][Next]_vars

---------------------------------------------------------------------------
(* Vocabulary of the properties *)

\* the Model computed for the geometry the constructor configures
GoodModel == Model(NodeCount, Dec(85, -7), Dec(125, -7))

\* the position of step in the steps cell has completed, 0 if it has not run
Idx(cell, step) ==
    IF \E i \in 1..Len(cell.trace) : cell.trace[i] = step
    THEN CHOOSE i \in 1..Len(cell.trace) : cell.trace[i] = step
    ELSE 0

Ran(cell, step) == Idx(cell, step) > 0

\* some selected cracking or LAM identifier asks for Dai's stress model
NeedsDai(d) ==
    \/ \E i \in 0..(IdLen - 1) : i < d.CS_n /\ d.CS_id[i] = 2
    \/ \E i \in 0..(IdLen - 1) : i < d.LAM_n /\ d.LAM_id[i] = 1

\* some selected cracking identifier asks for Laresgoiti's stress model
NeedsLares(d) == \E i \in 0..(IdLen - 1) : i < d.CS_n /\ d.CS_id[i] = 1

\* the constructor returned cell to its caller
Constructed(cell) == cell.pc = "done"

\* the profiles setC(fp, fn) writes
DerivedZp(cell) == Uniform(Times(Dec(689332, -6), cell.Cmaxpos))

DerivedZn(cell) == Uniform(Times(Dec(479283, -6), cell.Cmaxneg))

---------------------------------------------------------------------------
(* C1 *)

\* C1: in every cell a constructor returned, s_dai holds iff a cracking
\* identifier below CS_n is 2 or a LAM identifier below LAM_n is 1, and
\* s_lares holds iff a cracking identifier below CS_n is 1; so the selector
\* with the single cracking identifier 1 and no LAM identifier 1 gives
\* s_lares and not s_dai, and the default selector gives neither.
C1_FlagsFromSelector ==
    \A c \in CellIds :
        Constructed(cells[c]) =>
            LET d  == cells[c].deg_id
                sp == cells[c].sparam
            IN  /\ sp.s_dai = NeedsDai(d)
                /\ sp.s_lares = NeedsLares(d)
                /\ (d.CS_n = 1 /\ d.CS_id[0] = 1 /\ ~(\E i \in 0..(d.LAM_n - 1) : d.LAM_id[i] = 1))
                      => (sp.s_lares /\ ~sp.s_dai)
                /\ cells[c].kind = 1 => (~sp.s_dai /\ ~sp.s_lares)

\* a cell built with the single cracking identifier 1 (an unused slot holds
\* 2, an unused LAM slot holds 1): s_lares is set, s_dai is not
C1_Witness ==
    \E c \in CellIds :
        /\ Constructed(cells[c]) /\ cells[c].kind = 2
        /\ cells[c].deg_id.CS_n = 1 /\ cells[c].deg_id.CS_id[0] = 1
        /\ cells[c].deg_id.CS_id[IdLen - 1] = 2
        /\ cells[c].deg_id.LAM_n = 1 /\ cells[c].deg_id.LAM_id[0] = 2
        /\ cells[c].deg_id.LAM_id[IdLen - 1] = 1
        /\ cells[c].sparam.s_lares /\ ~cells[c].sparam.s_dai

---------------------------------------------------------------------------
(* C2 *)

\* C2: with a Model that does not match the configured geometry, a
\* constructor that has got past checkModelparam's place has failed, with
\* error 110 and not 12; error 12 is only ever raised after the Model was
\* checked and found to match.
C2_MismatchIs110 ==
    \A c \in CellIds :
        /\ (MM # GoodModel /\ cells[c].pc \notin {"assign", "checkModelparam"})
              => (cells[c].pc = "failed" /\ cells[c].err = 110 /\ cells[c].err # 12)
        /\ cells[c].err = 12 => (MM = GoodModel /\ Ran(cells[c], "checkModelparam"))
        /\ cells[c].err \in {0, 110, 12}

\* a construction from a Model of another discretisation order has failed
C2_Witness ==
    \E c \in CellIds :
        /\ MM.nch # NodeCount
        /\ cells[c].pc = "failed" /\ cells[c].err = 110
        /\ cells[c].M = MM

---------------------------------------------------------------------------
(* C3 *)

\* the steps of the two constructors in the order of the source text
FullOrder ==
    <<"assign", "checkModelparam", "initialise", "validState", "setC",
      "params", "deg_id", "flags", "degid", "flags2">>

\* C3 as claimed: the state validState checks already holds the profiles
\* derived from the lithium fractions, and wherever setC has run, a
\* validation has run after it.
C3_AsClaimed ==
    \A c \in CellIds :
        /\ cells[c].pc = "validState"
              => (cells[c].s.zp = DerivedZp(cells[c]) /\ cells[c].s.zn = DerivedZn(cells[c]))
        /\ Constructed(cells[c])
              => Idx(cells[c], "setC") < Idx(cells[c], "validState")

\* C3 amended: the steps run in the order check of the Model, initialise
\* (scalars, areas, resistance, crack surface; profiles never written),
\* validState, setC; the state validState checks holds profiles that were
\* never written, and where setC has run it ran after the only validation
\* and the profiles are the derived ones.
C3_ValidateBeforeSetC ==
    \A c \in CellIds :
        LET cell == cells[c]
        IN  /\ cell.trace = SubSeq(FullOrder, 1, Len(cell.trace))
            /\ cell.pc = "validState"
                  => /\ cell.s.zp \in UninitProfiles /\ cell.s.zn \in UninitProfiles
                     /\ cell.s.R = InitialValues(cell).R
                     /\ ~Ran(cell, "setC")
            /\ Ran(cell, "setC")
                  => /\ 0 < Idx(cell, "checkModelparam")
                     /\ Idx(cell, "checkModelparam") < Idx(cell, "initialise")
                     /\ Idx(cell, "initialise") < Idx(cell, "validState")
                     /\ Idx(cell, "validState") < Idx(cell, "setC")
                     /\ cell.s.zp = DerivedZp(cell) /\ cell.s.zn = DerivedZn(cell)
            /\ Constructed(cell) => Ran(cell, "setC")

\* a returned cell whose profiles were set after its validation
C3_Witness ==
    \E c \in CellIds :
        /\ Constructed(cells[c])
        /\ Idx(cells[c], "validState") = 4 /\ Idx(cells[c], "setC") = 5
        /\ cells[c].s.zp = DerivedZp(cells[c])
        /\ cells[c].s_ini.zp # cells[c].s.zp

---------------------------------------------------------------------------
(* C4 *)

\* C4: a step after checkModelparam has run only where the Model matched, a
\* step after validState only where the state was valid; a failed constructor
\* carries 110 or 12 and ran no step after the failing one (110: no state
\* initialised; both: no concentration set, no parameter, selector or flag
\* touched); a returned cell ran every step of its constructor without error,
\* and the assignment of the supplied selector is only reached after the
\* whole delegated construction.
C4_FailFast ==
    \A c \in CellIds :
        LET cell == cells[c]
        IN  /\ Ran(cell, "checkModelparam") => MM = GoodModel
            /\ Ran(cell, "validState") => ValidState(cell.s)
            /\ (cell.pc = "failed") = (cell.err # 0)
            /\ cell.pc = "failed"
                  => /\ cell.err \in {110, 12}
                     /\ cell.err = 110 =>
                           /\ cell.trace = SubSeq(FullOrder, 1, 1)
                           /\ cell.s = UnsetState /\ cell.s_ini = UnsetState
                     /\ cell.err = 12 => cell.trace = SubSeq(FullOrder, 1, 3)
                     /\ cell.s.zp # DerivedZp(cell)
                     /\ cell.npl = 0 /\ cell.csparam.CS_diffusion = 0
                     /\ \E g \in Ids : cell.deg_id = UninitDegId(g)
                     /\ cell.sparam = env.StressParam_Kokam
                     /\ cell.kind = 0
            /\ Constructed(cell)
                  => /\ cell.err = 0
                     /\ cell.kind = 1 => cell.trace = SubSeq(FullOrder, 1, 8)
                     /\ cell.kind = 2 => cell.trace = FullOrder
                     /\ cell.kind \in {1, 2}
            /\ Ran(cell, "degid") => SubSeq(cell.trace, 1, 8) = SubSeq(FullOrder, 1, 8)

\* a constructor that failed in checkModelparam: nothing after it has run
C4_Witness ==
    \E c \in CellIds :
        /\ cells[c].pc = "failed" /\ cells[c].err = 110
        /\ cells[c].trace = <<"assign">>
        /\ cells[c].s = UnsetState
        /\ cells[c].deg_id = UninitDegId(2)

---------------------------------------------------------------------------
(* C5 *)

\* C5: where Cell_KokamNMC(MM, verbosei) has run to its end (it returned,
\* or it is about to hand over to the body of the delegating constructor),
\* SEI_n = CS_n = LAM_n = 1, SEI_id[0] = CS_id[0] = LAM_id[0] = 0, the
\* plating identifier is 0 and both coupling flags are 0.
C5_DefaultSelector ==
    \A c \in CellIds :
        (cells[c].pc = "ret" \/ (Constructed(cells[c]) /\ cells[c].kind = 1))
            => LET d == cells[c].deg_id
               IN  /\ d.SEI_n = 1 /\ d.CS_n = 1 /\ d.LAM_n = 1
                   /\ d.SEI_id[0] = 0 /\ d.CS_id[0] = 0 /\ d.LAM_id[0] = 0
                   /\ d.pl_id = 0
                   /\ d.SEI_porosity = 0 /\ d.CS_diffusion = 0

\* a cell returned by Cell_KokamNMC(MM, verbosei) whose DEG_ID held the
\* identifier 2 everywhere before the constructor ran
C5_Witness ==
    \E c \in CellIds :
        /\ Constructed(cells[c]) /\ cells[c].kind = 1
        /\ cells[c].deg_id.CS_id[IdLen - 1] = 2
        /\ cells[c].deg_id.CS_n = 1 /\ cells[c].deg_id.CS_id[0] = 0

---------------------------------------------------------------------------
(* C8 *)

\* C8 as claimed: in a returned cell the crack surface is 0.01 * an, an
\* being the effective anode area 3 * en / Rn held in the state.
C8_AsClaimed ==
    \A c \in CellIds :
        Constructed(cells[c]) =>
            /\ cells[c].s.an = RDiv(RMul(Dec(3, 0), cells[c].s.en), cells[c].Rn)
            /\ cells[c].s.CS = RMul(Dec(1, -2), cells[c].s.an)

\* C8 amended: in a returned cell the crack surface is 1% of the real anode
\* surface, 0.01 * an * elec_surf * thickn, where an = 3 * en / Rn is the
\* effective anode area held in the state and thickn the anode thickness
\* held in the state.
C8_CrackSurfaceOfRealArea ==
    \A c \in CellIds :
        Constructed(cells[c]) =>
            LET s == cells[c].s
            IN  /\ s.an = RDiv(RMul(Dec(3, 0), s.en), cells[c].Rn)
                /\ s.CS = RMul(Dec(1, -2), RMul(s.an, RMul(cells[c].elec_surf, s.thickn)))
                /\ s.CS = cells[c].s_ini.CS

\* a returned cell: an = 120000 and CS = 0.00866124
C8_Witness ==
    \E c \in CellIds :
        /\ Constructed(cells[c])
        /\ cells[c].s.an = Dec(12, 4)
        /\ cells[c].s.CS = Dec(866124, -8)

---------------------------------------------------------------------------
(* C9 *)

\* C9: a cell constructed from the matching Model holds the resistance
\* Rdc * (thickp * ap * elec_surf + thickn * an * elec_surf) / 2 with
\* Rdc = 0.0102 and thickp, thickn, ap, an the values held in the same state,
\* ap = 3 * ep / Rp and an = 3 * en / Rn; its validation has run and passed.
C9_InitialResistance ==
    \A c \in CellIds :
        Constructed(cells[c]) =>
            LET s    == cells[c].s
                surf == cells[c].elec_surf
            IN  /\ MM = GoodModel
                /\ s.ap = RDiv(RMul(Dec(3, 0), s.ep), cells[c].Rp)
                /\ s.an = RDiv(RMul(Dec(3, 0), s.en), cells[c].Rn)
                /\ s.R = RDiv(RMul(Dec(102, -4),
                                   RAdd(RMul(s.thickp, RMul(s.ap, surf)),
                                        RMul(s.thickn, RMul(s.an, surf)))),
                              Dec(2, 0))
                /\ Ran(cells[c], "validState") /\ cells[c].err = 0
                /\ ValidState(s)

\* a returned cell with R = 0.0106038324
C9_Witness ==
    \E c \in CellIds :
        /\ Constructed(cells[c])
        /\ cells[c].s.R = Dec(106038324, -10)
        /\ Ran(cells[c], "validState")

---------------------------------------------------------------------------
(* C10 *)

\* C10: each of the two flag derivations leaves s_dai equal to (s_dai before
\* it) or (an identifier below the counts of the cell's selector asks for
\* Dai's model), and s_lares likewise; so a flag set before a derivation is
\* set after it, and identifiers at or beyond the counts have no influence.
\* The first derivation starts from the flags of the stress-parameter record.
C10_FlagsOnlySet ==
    [][\A c \in CellIds :
          (cells[c].pc \in {"flags", "flags2"} /\ cells'[c].pc # cells[c].pc)
              => LET d   == cells[c].deg_id
                     old == cells[c].sparam
                     new == cells'[c].sparam
                 IN  /\ new.s_dai = (old.s_dai \/ NeedsDai(d))
                     /\ new.s_lares = (old.s_lares \/ NeedsLares(d))
                     /\ old.s_dai => new.s_dai
                     /\ old.s_lares => new.s_lares
                     /\ cells[c].pc = "flags" => old = env.StressParam_Kokam
                     /\ cells'[c].deg_id = d]_vars

\* a cell whose record carried s_dai and whose supplied selector asks for no
\* stress model below its counts (an unused cracking slot holds 1): s_dai is
\* still set, s_lares is not
C10_Witness ==
    \E c \in CellIds :
        /\ Constructed(cells[c]) /\ cells[c].kind = 2
        /\ env.StressParam_Kokam.s_dai /\ ~env.StressParam_Kokam.s_lares
        /\ ~NeedsDai(cells[c].deg_id) /\ ~NeedsLares(cells[c].deg_id)
        /\ cells[c].deg_id.CS_n = 1 /\ cells[c].deg_id.CS_id[IdLen - 1] = 1
        /\ cells[c].sparam.s_dai /\ ~cells[c].sparam.s_lares

---------------------------------------------------------------------------
(* C6 *)

\* what a caller gets from a constructor, the verbosity left out: the error,
\* or the cell's members (of deg_id the part below the counts; of the states
\* the physical state s)
Outcome(cell) ==
    IF cell.pc = "failed" THEN [err |-> cell.err]
    ELSE [err |-> cell.err, kind |-> cell.kind, s |-> cell.s,
          selector |-> Selector(cell.deg_id), sparam |-> cell.sparam,
          M |-> cell.M, n |-> cell.n, Cmaxpos |-> cell.Cmaxpos,
          Cmaxneg |-> cell.Cmaxneg, Rp |-> cell.Rp, Rn |-> cell.Rn,
          elec_surf |-> cell.elec_surf, csparam |-> cell.csparam,
          npl |-> cell.npl]

Finished(cell) == cell.pc \in {"done", "failed"}

\* the two calls used the same constructor with the same selector
SameCall(a, b) ==
    (Constructed(a) /\ Constructed(b))
        => (a.kind = b.kind /\ (a.kind = 2 => a.degid = b.degid))

\* C6: two finished constructions from the same Model with the same selector
\* end alike whatever their verbosities: both with the same error, or both
\* with the same physical state, selector and stress flags.
C6_VerbosityAdvisory ==
    \A c \in CellIds, d \in CellIds :
        (Finished(cells[c]) /\ Finished(cells[d]) /\ SameCall(cells[c], cells[d]))
            => Outcome(cells[c]) = Outcome(cells[d])

\* two cells built with the same selector asking for Dai's model, one with
\* verbosity 0 and one with the highest verbosity
C6_Witness ==
    /\ Constructed(cells[1]) /\ Constructed(cells[2])
    /\ cells[1].kind = 2 /\ cells[2].kind = 2
    /\ cells[1].degid = cells[2].degid
    /\ cells[1].verbose = 0 /\ cells[2].verbose = MaxVerbose
    /\ cells[1].sparam.s_dai
    /\ Outcome(cells[1]) = Outcome(cells[2])

---------------------------------------------------------------------------
(* C7 *)

\* the cell a constructor call ends with when its steps run one after the
\* other with nothing in between: verbosity v, the never-written locals up
\* and un, constructor kind (1: Model and verbosity, 2: with the selector d)
Alone(mm, v, up, un, kind, d) ==
    LET c2 == CheckModelStep(BeginStep(NewCell, v, env.StressParam_Kokam), mm)
        c4 == ValidStateStep(InitialiseStep(c2, up, un))
        c8 == FlagsStep(DefaultDegIdStep(ParamsStep(SetCStep(c4))), "flags")
    IN  IF c2.pc = "failed" THEN c2
        ELSE IF c4.pc = "failed" THEN c4
        ELSE IF kind = 1 THEN ReturnStep(c8)
        ELSE FlagsStep(AssignDegIdStep(c8, d), "flags2")

\* everything a finished constructor call leaves behind
Result(cell) ==
    [outcome |-> Outcome(cell), pc |-> cell.pc, verbose |-> cell.verbose,
     s_ini |-> cell.s_ini, trace |-> cell.trace]

\* C7: no step of a construction changes the shared Model, a step of one
\* construction changes nothing of the other cell, and every construction
\* that has finished, whatever ran in between its steps, left the cell (or
\* the error) it leaves when it runs alone.
C7_ConcurrentConstruction ==
    /\ [][/\ MM' = MM
          /\ \A c \in CellIds :
                cells'[c] # cells[c]
                    => \A d \in CellIds \ {c} : cells'[d] = cells[d]]_vars
    /\ [](\A c \in CellIds :
             Finished(cells[c])
                 => Result(cells[c]) =
                       Result(Alone(MM, cells[c].verbose, cells[c].s_ini.zp,
                                    cells[c].s_ini.zn, cells[c].kind,
                                    cells[c].degid)))

\* both constructions are under way at once: one is in the body of the
\* delegating constructor, the other has not initialised its state yet
C7_Witness ==
    /\ cells[1].pc = "flags2"
    /\ cells[2].pc = "initialise"
    /\ cells[1].M = MM /\ cells[2].M = MM

=============================================================================
